---- MODULE Spec2Model ----
(***************************************************************************)
(* Path-name metadata of libhandlegraph: the FORMAT regular expression,    *)
(* the single-field parsers, parse_path_name, create_path_name and the     *)
(* filtered iteration helpers of PathMetadata (src/src/path_metadata.cpp). *)
(*                                                                         *)
(* A std::string is a sequence of one-character strings; "" is << >>.      *)
(***************************************************************************)
EXTENDS Integers, Sequences, FiniteSets, TLC

VARIABLES
    path_name,   \* the name handed to the parsers
    comps,       \* how path_name was put together: its '#'-separated components
    suffix,      \* ... and what follows them (empty, or starting with '[')
    out,         \* the caller's six output arguments of parse_path_name
    pn_status,   \* "not_called", "returned" or "raised": parse_path_name's outcome
    single,      \* the single-field parser call made on path_name: [fn, raised, val]
    args,        \* the six arguments of create_path_name
    built,       \* create_path_name's outcome: [status, name]
    paths,       \* the graph's paths: paths[h] is the name of path handle h
    call,        \* the iteration helper called, and with which arguments
    pc,          \* "idle", "running", "returned" or "raised": where that call is
    idx,         \* the position of the underlying enumeration
    visited,     \* the handles the iteratee was invoked on, in order
    verdicts,    \* what the iteratee returned, invocation by invocation
    ret          \* the helper's return value

parseVars == <<path_name, comps, suffix, out, pn_status, single>>
buildVars == <<args, built>>
iterVars == <<paths, call, pc, idx, visited, verdicts, ret>>
vars == <<parseVars, buildVars, iterVars>>

----------------------------------------------------------------------------
(* Bounds of the model *)

MaxComponents == 5
MaxNumber == 1
MaxSteps == 3

----------------------------------------------------------------------------
(* The no-value placeholders and the format constants *)

NO_SAMPLE_NAME == << >>
NO_LOCUS_NAME == << >>
NO_HAPLOTYPE == -1
NO_PHASE_BLOCK == -1
NO_END_POSITION == -1
NO_SUBRANGE == <<-1, NO_END_POSITION>>

ASSEMBLY_OR_NAME_MATCH == 1
LOCUS_MATCH_WITHOUT_HAPLOTYPE == 2
HAPLOTYPE_MATCH == 2
LOCUS_MATCH_WITH_HAPLOTYPE == 3
PHASE_BLOCK_MATCH == 4
RANGE_START_MATCH == 5
RANGE_END_MATCH == 6

SEPARATOR == "#"
RANGE_START_SEPARATOR == "["
RANGE_END_SEPARATOR == "-"
RANGE_TERMINATOR == "]"

SENSE_GENERIC == "SENSE_GENERIC"
SENSE_REFERENCE == "SENSE_REFERENCE"
SENSE_HAPLOTYPE == "SENSE_HAPLOTYPE"
Sense == {SENSE_GENERIC, SENSE_REFERENCE, SENSE_HAPLOTYPE}

----------------------------------------------------------------------------
(* Characters and decimal numerals *)

DigitChars == <<"0", "1", "2", "3", "4", "5", "6", "7", "8", "9">>
Digits == {DigitChars[i] : i \in 1..10}
DigitValue(c) == (CHOOSE i \in 1..10 : DigitChars[i] = c) - 1

\* a digit
IsDigit(c) == c \in Digits
\* anything but '[' and '#'
IsComponentChar(c) == c \notin {"[", "#"}
\* isspace, which strtoll skips
IsSpace(c) == c \in {" ", "\t", "\n"}

SetMax(S) == CHOOSE x \in S : \A y \in S : y <= x

\* The position after the longest run of digits (of component characters)
\* that starts at i
RECURSIVE DigitRunEnd(_, _)
DigitRunEnd(s, i) ==
    IF i <= Len(s) /\ IsDigit(s[i]) THEN DigitRunEnd(s, i + 1) ELSE i

RECURSIVE ComponentRunEnd(_, _)
ComponentRunEnd(s, i) ==
    IF i <= Len(s) /\ IsComponentChar(s[i]) THEN ComponentRunEnd(s, i + 1) ELSE i

----------------------------------------------------------------------------
(* std::regex_match(path_name, result, FORMAT).  FORMAT is, group by group: *)
(*   1: a run of characters other than '[' and '#';                        *)
(*   2, 3: optionally, '#' and such a run; and once more;                  *)
(*   4: optionally, '#' and one or more digits;                            *)
(*   5, 6: optionally, '[', digits, '-', digits, ']'.                      *)
(* A backtracking match with greedy quantifiers: a run is taken at its      *)
(* longest, and an optional group is taken rather than skipped, for which   *)
(* the rest of the expression still matches to the end of the input.       *)
(* [ok, g] is a match: g the groups 1..6 it captured.                      *)

Unmatched == [matched |-> FALSE, str |-> << >>]
Capture(s, i, j) == [matched |-> TRUE, str |-> SubSeq(s, i, j - 1)]
NoGroups == [g \in 1..6 |-> Unmatched]
Fail == [ok |-> FALSE, g |-> NoGroups]

At(s, i, c) == i <= Len(s) /\ s[i] = c

\* The optional range group and the end of the input, from each position i.
\* Inside the group the dash and the second number are not optional in the
\* source.  ab[1] is where the dash is and ab[2] where the ']' is, which the
\* end of the input has to follow.
RangeTail(s) ==
    [i \in 1..(Len(s) + 1) |->
        LET A == IF At(s, i, RANGE_START_SEPARATOR)
                 THEN {ab \in ((i + 2)..Len(s)) \X {Len(s)} :
                          /\ ab[1] <= DigitRunEnd(s, i + 1)
                          /\ At(s, ab[1], RANGE_END_SEPARATOR)
                          /\ ab[1] + 2 <= ab[2]
                          /\ ab[2] <= DigitRunEnd(s, ab[1] + 1)
                          /\ At(s, ab[2], RANGE_TERMINATOR)}
                 ELSE {}
        IN  IF A # {}
            THEN LET ab == CHOOSE x \in A : \A y \in A : y[1] <= x[1]
                 IN  [ok |-> TRUE,
                      g |-> [NoGroups EXCEPT
                                ![RANGE_START_MATCH] = Capture(s, i + 1, ab[1]),
                                ![RANGE_END_MATCH] = Capture(s, ab[1] + 1, ab[2])]]
            ELSE IF i = Len(s) + 1 THEN [ok |-> TRUE, g |-> NoGroups]
            ELSE Fail]

\* An optional group: '#' and a run of at least `least` characters that ends
\* at runEnd[i + 1] or before, captured as group k; then rest, the match of
\* the rest of the expression from each position.  The group is taken, with
\* the longest run that lets rest match, in preference to being skipped.
OptionalGroup(s, k, runEnd, least, rest) ==
    [i \in 1..(Len(s) + 1) |->
        LET J == IF At(s, i, SEPARATOR)
                 THEN {j \in (i + 1 + least)..runEnd[i + 1] : rest[j].ok}
                 ELSE {}
        IN  IF J # {}
            THEN LET j == SetMax(J)
                 IN  [ok |-> TRUE, g |-> [rest[j].g EXCEPT ![k] = Capture(s, i + 1, j)]]
            ELSE rest[i]]

\* Group 1, a run of component characters from the start, and then rest
FirstGroup(s, rest) ==
    LET J == {j \in 1..ComponentRunEnd(s, 1) : rest[j].ok}
    IN  IF J # {}
        THEN LET j == SetMax(J)
             IN  [ok |-> TRUE,
                  g |-> [rest[j].g EXCEPT ![ASSEMBLY_OR_NAME_MATCH] = Capture(s, 1, j)]]
        ELSE Fail

DigitRuns(s) == [i \in 1..(Len(s) + 2) |-> DigitRunEnd(s, i)]
ComponentRuns(s) == [i \in 1..(Len(s) + 2) |-> ComponentRunEnd(s, i)]

\* The whole expression: [ok |-> regex_match's return, g |-> result[1..6]]
FORMAT(s) ==
    FirstGroup(s,
        OptionalGroup(s, HAPLOTYPE_MATCH, ComponentRuns(s), 0,
            OptionalGroup(s, LOCUS_MATCH_WITH_HAPLOTYPE, ComponentRuns(s), 0,
                OptionalGroup(s, PHASE_BLOCK_MATCH, DigitRuns(s), 1,
                    RangeTail(s)))))

----------------------------------------------------------------------------
(* std::stoll: skips white space, takes an optional sign and the longest   *)
(* run of digits, throws std::invalid_argument when there is no digit and  *)
(* std::out_of_range when the value does not fit a signed 64-bit integer.  *)

\* 2^63 - 1 and 2^63, digit by digit
LLONG_MAX_DIGITS == <<9, 2, 2, 3, 3, 7, 2, 0, 3, 6, 8, 5, 4, 7, 7, 5, 8, 0, 7>>
LLONG_MIN_DIGITS == <<9, 2, 2, 3, 3, 7, 2, 0, 3, 6, 8, 5, 4, 7, 7, 5, 8, 0, 8>>

RECURSIVE SkipSpace(_, _)
SkipSpace(s, i) == IF i <= Len(s) /\ IsSpace(s[i]) THEN SkipSpace(s, i + 1) ELSE i

RECURSIVE SkipZeros(_)
SkipZeros(d) == IF Len(d) > 1 /\ d[1] = 0 THEN SkipZeros(Tail(d)) ELSE d

\* a > b for two digit sequences of the same length
DigitsGreater(a, b) ==
    \E k \in 1..Len(a) : a[k] > b[k] /\ \A m \in 1..(k - 1) : a[m] = b[m]

RECURSIVE DigitsValue(_)
DigitsValue(d) == IF d = << >> THEN 0 ELSE 10 * DigitsValue(SubSeq(d, 1, Len(d) - 1)) + d[Len(d)]

Stoll(str) ==
    LET i0 == SkipSpace(str, 1)
        negative == At(str, i0, "-")
        i1 == IF At(str, i0, "-") \/ At(str, i0, "+") THEN i0 + 1 ELSE i0
        e == DigitRunEnd(str, i1)
        d == SkipZeros([k \in 1..(e - i1) |-> DigitValue(str[i1 + k - 1])])
        limit == IF negative THEN LLONG_MIN_DIGITS ELSE LLONG_MAX_DIGITS
    IN  IF e = i1
        THEN [ok |-> FALSE, why |-> "invalid_argument", val |-> 0]
        ELSE IF Len(d) > Len(limit) \/ (Len(d) = Len(limit) /\ DigitsGreater(d, limit))
        THEN [ok |-> FALSE, why |-> "out_of_range", val |-> 0]
        ELSE [ok |-> TRUE, why |-> "", val |-> IF negative THEN -DigitsValue(d) ELSE DigitsValue(d)]

----------------------------------------------------------------------------
(* The single-field parsers.  Each returns [raised, val]: raised is TRUE   *)
(* when the call ends in an exception (one of std::stoll's), and then val  *)
(* is not a result.                                                        *)

Returns(v) == [raised |-> FALSE, val |-> v]
Raises == [raised |-> TRUE, val |-> "exception"]

parse_sense(name) ==
    LET result == FORMAT(name)
    IN  IF result.ok
        THEN IF result.g[PHASE_BLOCK_MATCH].matched
             THEN Returns(SENSE_HAPLOTYPE)
             ELSE Returns(SENSE_REFERENCE)
        ELSE Returns(SENSE_GENERIC)

parse_sample_name(name) ==
    LET result == FORMAT(name)
    IN  IF result.ok
        THEN IF \/ result.g[LOCUS_MATCH_WITH_HAPLOTYPE].matched
                \/ result.g[LOCUS_MATCH_WITHOUT_HAPLOTYPE].matched
             THEN Returns(result.g[ASSEMBLY_OR_NAME_MATCH].str)
             ELSE Returns(NO_SAMPLE_NAME)
        ELSE Returns(NO_SAMPLE_NAME)

\* A parse_locus_name that always takes the first component
parse_locus_name_First(name) ==
    LET result == FORMAT(name)
    IN  IF result.ok THEN Returns(result.g[ASSEMBLY_OR_NAME_MATCH].str) ELSE Returns(name)

parse_locus_name(name) ==
    LET result == FORMAT(name)
    IN  IF result.ok
        THEN IF result.g[LOCUS_MATCH_WITH_HAPLOTYPE].matched
             THEN Returns(result.g[LOCUS_MATCH_WITH_HAPLOTYPE].str)
             ELSE IF result.g[LOCUS_MATCH_WITHOUT_HAPLOTYPE].matched
             THEN Returns(result.g[LOCUS_MATCH_WITHOUT_HAPLOTYPE].str)
             ELSE Returns(result.g[ASSEMBLY_OR_NAME_MATCH].str)
        ELSE Returns(name)

parse_haplotype(name) ==
    LET result == FORMAT(name)
    IN  IF result.ok
        THEN IF result.g[LOCUS_MATCH_WITH_HAPLOTYPE].matched
             THEN LET n == Stoll(result.g[HAPLOTYPE_MATCH].str)
                  IN  IF n.ok THEN Returns(n.val) ELSE Raises
             ELSE Returns(NO_HAPLOTYPE)
        ELSE Returns(NO_HAPLOTYPE)

parse_phase_block(name) ==
    LET result == FORMAT(name)
    IN  IF result.ok
        THEN IF result.g[PHASE_BLOCK_MATCH].matched
             THEN LET n == Stoll(result.g[PHASE_BLOCK_MATCH].str)
                  IN  IF n.ok THEN Returns(n.val) ELSE Raises
             ELSE Returns(NO_PHASE_BLOCK)
        ELSE Returns(NO_PHASE_BLOCK)

parse_subrange(name) ==
    LET result == FORMAT(name)
        to_return == NO_SUBRANGE
    IN  IF result.ok /\ result.g[RANGE_START_MATCH].matched
        THEN LET first == Stoll(result.g[RANGE_START_MATCH].str)
             IN  IF ~first.ok
                 THEN Raises
                 ELSE IF result.g[RANGE_END_MATCH].matched
                 THEN LET second == Stoll(result.g[RANGE_END_MATCH].str)
                      IN  IF second.ok THEN Returns(<<first.val, second.val>>) ELSE Raises
                 ELSE Returns(<<first.val, to_return[2]>>)
        ELSE Returns(to_return)

----------------------------------------------------------------------------
(* parse_path_name writes the caller's six output arguments in the order   *)
(* of the source; o is their value before the call.  The result is         *)
(* [raised, o]: when a std::stoll throws, o keeps what was written so far. *)

Thrown(o) == [raised |-> TRUE, o |-> o]
Done(o) == [raised |-> FALSE, o |-> o]

\* lines 235-246: the subrange
ParseSubrangeInto(result, o) ==
    IF result.g[RANGE_START_MATCH].matched
    THEN LET first == Stoll(result.g[RANGE_START_MATCH].str)
         IN  IF ~first.ok
             THEN Thrown(o)
             ELSE LET o1 == [o EXCEPT !.subrange[1] = first.val]
                  IN  IF result.g[RANGE_END_MATCH].matched
                      THEN LET second == Stoll(result.g[RANGE_END_MATCH].str)
                           IN  IF second.ok
                               THEN Done([o1 EXCEPT !.subrange[2] = second.val])
                               ELSE Thrown(o1)
                      ELSE Done([o1 EXCEPT !.subrange[2] = NO_END_POSITION])
    ELSE Done([o EXCEPT !.subrange = NO_SUBRANGE])

\* A parse_path_name that never reads the phase block group
ParsePhaseBlockInto_Ignored(result, o) ==
    ParseSubrangeInto(result, [o EXCEPT !.phase_block = NO_PHASE_BLOCK])

\* lines 226-233: the phase block, then the subrange
ParsePhaseBlockInto(result, o) ==
    IF result.g[PHASE_BLOCK_MATCH].matched
    THEN LET n == Stoll(result.g[PHASE_BLOCK_MATCH].str)
         IN  IF n.ok
             THEN ParseSubrangeInto(result, [o EXCEPT !.phase_block = n.val])
             ELSE Thrown(o)
    ELSE ParseSubrangeInto(result, [o EXCEPT !.phase_block = NO_PHASE_BLOCK])

\* lines 209-224: sample, locus and haplotype, then the rest
ParseComponentsInto(result, o) ==
    IF result.g[LOCUS_MATCH_WITH_HAPLOTYPE].matched
    THEN LET o1 == [o EXCEPT !.sample = result.g[ASSEMBLY_OR_NAME_MATCH].str,
                             !.locus = result.g[LOCUS_MATCH_WITH_HAPLOTYPE].str]
             n == Stoll(result.g[HAPLOTYPE_MATCH].str)
         IN  IF n.ok
             THEN ParsePhaseBlockInto(result, [o1 EXCEPT !.haplotype = n.val])
             ELSE Thrown(o1)
    ELSE IF result.g[LOCUS_MATCH_WITHOUT_HAPLOTYPE].matched
    THEN ParsePhaseBlockInto(result,
             [o EXCEPT !.sample = result.g[ASSEMBLY_OR_NAME_MATCH].str,
                       !.locus = result.g[LOCUS_MATCH_WITHOUT_HAPLOTYPE].str,
                       !.haplotype = NO_HAPLOTYPE])
    ELSE ParsePhaseBlockInto(result,
             [o EXCEPT !.sample = NO_SAMPLE_NAME,
                       !.locus = result.g[ASSEMBLY_OR_NAME_MATCH].str,
                       !.haplotype = NO_HAPLOTYPE])

parse_path_name(name, o) ==
    LET result == FORMAT(name)
    IN  IF result.ok
        THEN ParseComponentsInto(result,
                 [o EXCEPT !.sense = IF result.g[PHASE_BLOCK_MATCH].matched
                                     THEN SENSE_HAPLOTYPE
                                     ELSE SENSE_REFERENCE])
        ELSE Done([sense |-> SENSE_GENERIC,
                   sample |-> NO_SAMPLE_NAME,
                   locus |-> name,
                   haplotype |-> NO_HAPLOTYPE,
                   phase_block |-> NO_PHASE_BLOCK,
                   subrange |-> NO_SUBRANGE])

----------------------------------------------------------------------------
(* The names the parsers are given.  Every string is a number of           *)
(* '#'-separated components free of '#' and '[', followed by nothing or by *)
(* a rest that starts with '['.                                            *)

\* A numeral one digit longer than any 64-bit value
BigNumeral == [i \in 1..20 |-> "9"]

Components == {<< >>, <<"a">>, <<"1">>, <<"-", "1">>}

Suffixes == {<< >>,
             <<"[", "1", "-", "2", "0", "]">>,
             <<"[", "1", "]">>,
             <<"[", "1", "-", "2", "]", "a">>,
             <<"[", "-", "1", "-", "2", "]">>}

\* Names with a numeral that does not fit 64 bits, one per numeric position
BigNames == {[comps |-> <<<<"a">>, BigNumeral, <<"a">>>>, suffix |-> << >>],
             [comps |-> <<<<"a">>, <<"1">>, <<"a">>, BigNumeral>>, suffix |-> << >>],
             [comps |-> <<<<"a">>, <<"1">>, <<"a">>>>,
              suffix |-> <<"[">> \o BigNumeral \o <<"-", "2", "]">>],
             [comps |-> <<<<"a">>, <<"a">>>>,
              suffix |-> <<"[", "1", "-">> \o BigNumeral \o <<"]">>]}

RECURSIVE Join(_)
Join(cs) ==
    IF Len(cs) = 1 THEN cs[1]
    ELSE Join(SubSeq(cs, 1, Len(cs) - 1)) \o <<SEPARATOR>> \o cs[Len(cs)]

NameOf(cs, sfx) == Join(cs) \o sfx

ComponentLists == UNION {[1..n -> Components] : n \in 1..MaxComponents}

\* The caller's output arguments before any call: values no parser produces
Unassigned == [sense |-> "unassigned", sample |-> <<"?">>, locus |-> <<"?">>,
               haplotype |-> -7, phase_block |-> -7, subrange |-> <<-7, -7>>]

NotCalled == [fn |-> "none", raised |-> FALSE, val |-> "none"]

NotBuilt == [status |-> "not_called", name |-> << >>]
NoArgs == [sense |-> SENSE_GENERIC, sample |-> << >>, locus |-> << >>,
           haplotype |-> NO_HAPLOTYPE, phase_block |-> NO_PHASE_BLOCK,
           subrange |-> NO_SUBRANGE]

\* No create_path_name call is part of the run
BuildIdle == args = NoArgs /\ built = NotBuilt

NoCall == [fn |-> "none"]

\* No iteration helper is part of the run
IterIdle ==
    /\ paths = << >>
    /\ call = NoCall
    /\ pc = "idle"
    /\ idx = 0
    /\ visited = << >>
    /\ verdicts = << >>
    /\ ret = TRUE

InitParse ==
    /\ BuildIdle
    /\ IterIdle
    /\ \/ /\ comps \in ComponentLists
          /\ suffix \in Suffixes
       \/ \E b \in BigNames : comps = b.comps /\ suffix = b.suffix
    /\ path_name = NameOf(comps, suffix)
    /\ out = Unassigned
    /\ pn_status = "not_called"
    /\ single = NotCalled

\* A call of parse_path_name(path_name, sense, sample, locus, haplotype,
\* phase_block, subrange)
ParsePathName ==
    /\ pn_status = "not_called"
    /\ LET r == parse_path_name(path_name, out)
       IN  /\ out' = r.o
           /\ pn_status' = IF r.raised THEN "raised" ELSE "returned"
    /\ UNCHANGED <<path_name, comps, suffix, single, buildVars, iterVars>>

SingleCall(fn, r) ==
    /\ single.fn = "none"
    /\ single' = [fn |-> fn, raised |-> r.raised, val |-> r.val]
    /\ UNCHANGED <<path_name, comps, suffix, out, pn_status, buildVars, iterVars>>

ParseSense == SingleCall("parse_sense", parse_sense(path_name))
ParseSampleName == SingleCall("parse_sample_name", parse_sample_name(path_name))
ParseLocusName == SingleCall("parse_locus_name", parse_locus_name(path_name))
ParseHaplotype == SingleCall("parse_haplotype", parse_haplotype(path_name))
ParsePhaseBlock == SingleCall("parse_phase_block", parse_phase_block(path_name))
ParseSubrange == SingleCall("parse_subrange", parse_subrange(path_name))

NextParse ==
    \/ ParsePathName
    \/ ParseSense
    \/ ParseSampleName
    \/ ParseLocusName
    \/ ParseHaplotype
    \/ ParsePhaseBlock
    \/ ParseSubrange

SpecParse == InitParse /\ [][NextParse]_vars

----------------------------------------------------------------------------
(* create_path_name.  operator<< writes an int64_t in decimal, with a '-'  *)
(* for a negative value.                                                   *)

RECURSIVE DecimalDigits(_)
DecimalDigits(n) ==
    IF n < 10 THEN <<DigitChars[n + 1]>>
    ELSE DecimalDigits(n \div 10) \o <<DigitChars[(n % 10) + 1]>>

ToChars(n) == IF n < 0 THEN <<"-">> \o DecimalDigits(-n) ELSE DecimalDigits(n)

\* lines 267-272
SampleThrows(sense, sample) == sample # NO_SAMPLE_NAME /\ sense = SENSE_GENERIC
SamplePart(sample) == IF sample # NO_SAMPLE_NAME THEN sample \o <<SEPARATOR>> ELSE << >>

\* lines 273-283
LocusThrows(sense, locus) ==
    locus = NO_LOCUS_NAME /\ sense \in {SENSE_GENERIC, SENSE_REFERENCE, SENSE_HAPLOTYPE}
LocusPart(locus) == IF locus # NO_LOCUS_NAME THEN locus ELSE << >>

\* lines 284-293
HaplotypeThrows(sense, haplotype) ==
    IF haplotype # NO_HAPLOTYPE THEN sense = SENSE_GENERIC ELSE sense = SENSE_HAPLOTYPE
HaplotypePart(haplotype) ==
    IF haplotype # NO_HAPLOTYPE THEN <<SEPARATOR>> \o ToChars(haplotype) ELSE << >>

\* A create_path_name that lets a reference path carry a phase block
PhaseBlockThrows_ReferenceAllowed(sense, phase_block) ==
    IF phase_block # NO_PHASE_BLOCK
    THEN sense = SENSE_GENERIC
    ELSE sense = SENSE_HAPLOTYPE

\* lines 294-305
PhaseBlockThrows(sense, phase_block) ==
    IF phase_block # NO_PHASE_BLOCK
    THEN sense \in {SENSE_GENERIC, SENSE_REFERENCE}
    ELSE sense = SENSE_HAPLOTYPE
PhaseBlockPart(phase_block) ==
    IF phase_block # NO_PHASE_BLOCK THEN <<SEPARATOR>> \o ToChars(phase_block) ELSE << >>

\* A create_path_name that writes the end of every subrange
SubrangePart_EndAlways(subrange) ==
    IF subrange # NO_SUBRANGE
    THEN <<RANGE_START_SEPARATOR>> \o ToChars(subrange[1])
         \o <<RANGE_END_SEPARATOR>> \o ToChars(subrange[2])
         \o <<RANGE_TERMINATOR>>
    ELSE << >>

\* lines 306-313
SubrangePart(subrange) ==
    IF subrange # NO_SUBRANGE
    THEN <<RANGE_START_SEPARATOR>> \o ToChars(subrange[1])
         \o (IF subrange[2] # NO_END_POSITION
             THEN <<RANGE_END_SEPARATOR>> \o ToChars(subrange[2])
             ELSE << >>)
         \o <<RANGE_TERMINATOR>>
    ELSE << >>

\* [raised, name]: a std::runtime_error, or the name built
create_path_name(sense, sample, locus, haplotype, phase_block, subrange) ==
    IF \/ SampleThrows(sense, sample)
       \/ LocusThrows(sense, locus)
       \/ HaplotypeThrows(sense, haplotype)
       \/ PhaseBlockThrows(sense, phase_block)
    THEN [raised |-> TRUE, name |-> << >>]
    ELSE [raised |-> FALSE,
          name |-> SamplePart(sample) \o LocusPart(locus) \o HaplotypePart(haplotype)
                   \o PhaseBlockPart(phase_block) \o SubrangePart(subrange)]

----------------------------------------------------------------------------
(* Building a name and parsing it back *)

Numbers == (-2..MaxNumber) \cup {12}
SampleNames == {NO_SAMPLE_NAME, <<"s">>}
LocusNames == {NO_LOCUS_NAME, <<"a">>, <<"1">>}

\* No parser call is part of the run yet
ParseIdle ==
    /\ path_name = << >>
    /\ comps = << >>
    /\ suffix = << >>
    /\ out = Unassigned
    /\ pn_status = "not_called"
    /\ single = NotCalled

InitBuild ==
    /\ ParseIdle
    /\ IterIdle
    /\ args \in [sense : Sense, sample : SampleNames, locus : LocusNames,
                 haplotype : Numbers, phase_block : Numbers,
                 subrange : Numbers \X Numbers]
    /\ built = NotBuilt

\* A call of create_path_name(sense, sample, locus, haplotype, phase_block, subrange)
CreatePathName ==
    /\ built.status = "not_called"
    /\ LET r == create_path_name(args.sense, args.sample, args.locus,
                                 args.haplotype, args.phase_block, args.subrange)
       IN  built' = [status |-> IF r.raised THEN "raised" ELSE "returned",
                     name |-> r.name]
    /\ UNCHANGED <<args, parseVars, iterVars>>

\* A call of parse_path_name on the name create_path_name returned
ParseCreated ==
    /\ built.status = "returned"
    /\ pn_status = "not_called"
    /\ path_name' = built.name
    /\ LET r == parse_path_name(built.name, out)
       IN  /\ out' = r.o
           /\ pn_status' = IF r.raised THEN "raised" ELSE "returned"
    /\ UNCHANGED <<comps, suffix, single, buildVars, iterVars>>

NextBuild ==
    \/ CreatePathName
    \/ ParseCreated

SpecBuild == InitBuild /\ [][NextBuild]_vars

----------------------------------------------------------------------------
(* The accessors on a path handle, which parse the path's name *)

get_path_name(handle) == paths[handle]
get_sense(handle) == parse_sense(get_path_name(handle)).val
get_sample_name(handle) == parse_sample_name(get_path_name(handle)).val
get_locus_name(handle) == parse_locus_name(get_path_name(handle)).val

\* A step handle is a position of the enumeration of the steps on the
\* visited handle; steps[step] is the path the step belongs to.
get_path_handle_of_step(steps, step) == steps[step]

----------------------------------------------------------------------------
(* for_each_path_matching_impl and for_each_step_of_sense_impl.  A set     *)
(* argument is [given, set]: given is FALSE for a null pointer.            *)

\* A callback that forgets the test on the locus
PathPasses_LocusIgnored(senses, samples, loci, handle) ==
    /\ ~(senses.given /\ get_sense(handle) \notin senses.set)
    /\ ~(samples.given /\ get_sample_name(handle) \notin samples.set)

\* lines 323-334: the callback gets past the three tests
PathPasses(senses, samples, loci, handle) ==
    /\ ~(senses.given /\ get_sense(handle) \notin senses.set)
    /\ ~(samples.given /\ get_sample_name(handle) \notin samples.set)
    /\ ~(loci.given /\ get_locus_name(handle) \notin loci.set)

\* A callback with the test the wrong way round
StepPasses_Inverted(steps, sense, step) ==
    get_sense(get_path_handle_of_step(steps, step)) # sense

\* line 342: the callback gets past the test
StepPasses(steps, sense, step) ==
    ~(get_sense(get_path_handle_of_step(steps, step)) # sense)

\* A callback that invokes the iteratee and drops what it returns
CallbackReturn_VerdictDropped(passes, verdict) == TRUE

\* What the callback returns to the enumeration: true for an element that
\* does not pass, the iteratee's verdict for one that does
CallbackReturn(passes, verdict) == IF ~passes THEN TRUE ELSE verdict

\* The enumeration the call runs over: the path handles of the graph, or
\* the steps on the visited handle, each in the underlying order
Enumerated ==
    IF call.fn = "for_each_path_matching_impl"
    THEN [h \in 1..Len(paths) |-> h]
    ELSE [k \in 1..Len(call.steps) |-> k]

\* A callback that also looks at the haplotype of every path
PathRaises_HaplotypeConsulted(senses, samples, loci, handle) ==
    \/ parse_haplotype(get_path_name(handle)).raised
    \/ senses.given /\ parse_sense(get_path_name(handle)).raised
    \/ samples.given /\ parse_sample_name(get_path_name(handle)).raised
    \/ loci.given /\ parse_locus_name(get_path_name(handle)).raised

\* lines 323-334 with 49-59: an accessor the callback calls on the handle
\* throws.  get_sense is called when senses is given, get_sample_name when
\* samples is given and the sense was not refused, get_locus_name when loci
\* is given and neither the sense nor the sample was refused.
PathRaises(senses, samples, loci, handle) ==
    \/ senses.given /\ parse_sense(get_path_name(handle)).raised
    \/ /\ ~(senses.given /\ get_sense(handle) \notin senses.set)
       /\ samples.given
       /\ parse_sample_name(get_path_name(handle)).raised
    \/ /\ ~(senses.given /\ get_sense(handle) \notin senses.set)
       /\ ~(samples.given /\ get_sample_name(handle) \notin samples.set)
       /\ loci.given
       /\ parse_locus_name(get_path_name(handle)).raised

\* line 342 with 49-51: get_sense throws on the path of the step
StepRaises(steps, step) ==
    parse_sense(get_path_name(get_path_handle_of_step(steps, step))).raised

\* Whether an accessor throws in the callback on the element at idx
DerivationRaises ==
    IF call.fn = "for_each_path_matching_impl"
    THEN PathRaises(call.senses, call.samples, call.loci, Enumerated[idx])
    ELSE StepRaises(call.steps, Enumerated[idx])

\* Whether the callback lets the element at idx through to the iteratee
Passes ==
    IF call.fn = "for_each_path_matching_impl"
    THEN PathPasses(call.senses, call.samples, call.loci, Enumerated[idx])
    ELSE StepPasses(call.steps, call.sense, Enumerated[idx])

----------------------------------------------------------------------------
(* The graph and the arguments of the iteration helpers *)

PathNames == {<<"s", "#", "a">>,
              <<"s", "#", "1", "#", "a", "#", "0">>,
              <<"a", "[", "1", "]">>,
              <<"s", "#", "x", "#", "b">>}

\* The paths of a graph have distinct names; the underlying enumeration
\* yields them in any order
Graphs ==
    {g \in UNION {[1..n -> PathNames] : n \in 0..Cardinality(PathNames)} :
        \A i, j \in DOMAIN g : g[i] = g[j] => i = j}

Absent == [given |-> FALSE, set |-> {}]
Given(S) == [given |-> TRUE, set |-> S]

SenseSets == {Absent, Given({}), Given({SENSE_REFERENCE, SENSE_HAPLOTYPE})}
             \cup {Given({x}) : x \in Sense}
SampleSets == {Absent, Given({<<"s">>}), Given({NO_SAMPLE_NAME})}
LocusSets == {Absent, Given({<<"a">>}), Given({<<"b">>, <<"a", "[", "1", "]">>})}

StepLists == UNION {[1..n -> DOMAIN paths] : n \in 0..MaxSteps}

InitIter ==
    /\ ParseIdle
    /\ BuildIdle
    /\ paths \in Graphs
    /\ call = NoCall
    /\ pc = "idle"
    /\ idx = 0
    /\ visited = << >>
    /\ verdicts = << >>
    /\ ret = TRUE

\* for_each_path_matching_impl(senses, samples, loci, iteratee) is called
CallPathMatching ==
    /\ pc = "idle"
    /\ \E senses \in SenseSets, samples \in SampleSets, loci \in LocusSets :
           call' = [fn |-> "for_each_path_matching_impl",
                    senses |-> senses, samples |-> samples, loci |-> loci]
    /\ pc' = "running"
    /\ idx' = 1
    /\ UNCHANGED <<paths, visited, verdicts, ret, parseVars, buildVars>>

\* for_each_step_of_sense_impl(visited, sense, iteratee) is called; steps is
\* what the underlying enumeration yields for the visited handle
CallStepOfSense ==
    /\ pc = "idle"
    /\ \E steps \in StepLists, sense \in Sense :
           call' = [fn |-> "for_each_step_of_sense_impl",
                    steps |-> steps, sense |-> sense]
    /\ pc' = "running"
    /\ idx' = 1
    /\ UNCHANGED <<paths, visited, verdicts, ret, parseVars, buildVars>>

\* The underlying enumeration hands its next element to the callback, which
\* invokes the iteratee on it if it passes; the enumeration goes on when
\* the callback returns true and ends the call with false otherwise.  An
\* exception from an accessor leaves the callback and the call.
Element ==
    /\ pc = "running"
    /\ idx <= Len(Enumerated)
    /\ IF DerivationRaises
       THEN pc' = "raised" /\ UNCHANGED <<idx, visited, verdicts, ret>>
       ELSE \E verdict \in BOOLEAN :
                /\ ~Passes => verdict
                /\ IF Passes
                   THEN /\ visited' = Append(visited, Enumerated[idx])
                        /\ verdicts' = Append(verdicts, verdict)
                   ELSE UNCHANGED <<visited, verdicts>>
                /\ IF CallbackReturn(Passes, verdict)
                   THEN idx' = idx + 1 /\ UNCHANGED <<pc, ret>>
                   ELSE pc' = "returned" /\ ret' = FALSE /\ UNCHANGED idx
    /\ UNCHANGED <<paths, call, parseVars, buildVars>>

\* The underlying enumeration has run out of elements: the call returns true
Exhausted ==
    /\ pc = "running"
    /\ idx > Len(Enumerated)
    /\ pc' = "returned"
    /\ ret' = TRUE
    /\ UNCHANGED <<paths, call, idx, visited, verdicts, parseVars, buildVars>>

NextIter ==
    \/ CallPathMatching
    \/ CallStepOfSense
    \/ Element
    \/ Exhausted

SpecIter == InitIter /\ [][NextIter]_vars

----------------------------------------------------------------------------
(* The claims *)

\* C1 (as claimed): whenever create_path_name returns a name, parse_path_name
\* on that name returns, and yields the same sense, sample, locus, haplotype,
\* phase_block and subrange that the name was built from.
C1_RoundTrip ==
    (built.status = "returned" /\ pn_status # "not_called")
        => (pn_status = "returned" /\ out = args)

\* C2 (as claimed): no parser raises on any name, and a name that the format
\* does not match is classified GENERIC with the whole name as locus.
C2_ParsingTotal ==
    /\ pn_status # "raised"
    /\ ~single.raised
    /\ (pn_status = "returned" /\ ~FORMAT(path_name).ok)
           => (out.sense = SENSE_GENERIC /\ out.locus = path_name)

\* C3 (as claimed): after parse_path_name returns, a HAPLOTYPE name has a
\* haplotype and a phase block, a GENERIC name has no sample, haplotype or
\* phase block, and a REFERENCE name has no phase block.
C3_SenseFieldConsistency ==
    pn_status = "returned" =>
        /\ out.sense = SENSE_HAPLOTYPE =>
               (out.haplotype # NO_HAPLOTYPE /\ out.phase_block # NO_PHASE_BLOCK)
        /\ out.sense = SENSE_GENERIC =>
               /\ out.sample = NO_SAMPLE_NAME
               /\ out.haplotype = NO_HAPLOTYPE
               /\ out.phase_block = NO_PHASE_BLOCK
        /\ out.sense = SENSE_REFERENCE => out.phase_block = NO_PHASE_BLOCK

\* C4: create_path_name raises exactly when a sample or a haplotype is given
\* for a GENERIC path, the locus is missing, a HAPLOTYPE path lacks its
\* haplotype or its phase block, or a phase block is given for a GENERIC or
\* REFERENCE path; the subrange plays no part.
C4_MustFail ==
    \/ args.sample # NO_SAMPLE_NAME /\ args.sense = SENSE_GENERIC
    \/ args.locus = NO_LOCUS_NAME
    \/ args.haplotype # NO_HAPLOTYPE /\ args.sense = SENSE_GENERIC
    \/ args.haplotype = NO_HAPLOTYPE /\ args.sense = SENSE_HAPLOTYPE
    \/ args.phase_block # NO_PHASE_BLOCK /\ args.sense \in {SENSE_GENERIC, SENSE_REFERENCE}
    \/ args.phase_block = NO_PHASE_BLOCK /\ args.sense = SENSE_HAPLOTYPE

C4_FailsExactlyWhenInvalid ==
    built.status # "not_called" => (built.status = "raised" <=> C4_MustFail)

\* create_path_name has rejected a reference path for its phase block alone
C4_Witness ==
    /\ built.status = "raised"
    /\ args.sense = SENSE_REFERENCE
    /\ args.locus # NO_LOCUS_NAME
    /\ args.phase_block # NO_PHASE_BLOCK
    /\ args.subrange # NO_SUBRANGE

\* C5 (as claimed): a name of one or two components followed by "[1]", a
\* start with no end, parses with the locus free of the bracketed part and
\* the subrange (1, NO_END_POSITION).
OpenRange == <<"[", "1", "]">>

C5_OpenEndedSubrange ==
    (/\ pn_status = "returned"
     /\ suffix = OpenRange
     /\ Len(comps) \in 1..2
     /\ \A k \in 1..Len(comps) : comps[k] # << >>)
        => (out.locus = comps[Len(comps)] /\ out.subrange = <<1, NO_END_POSITION>>)

\* C6: the structured names S#L, S#H#L and S#H#L#P, with or without [A-B].
IsNumeral(c) == c # << >> /\ \A k \in 1..Len(c) : IsDigit(c[k])
NumeralDigits(c) == SkipZeros([k \in 1..Len(c) |-> DigitValue(c[k])])
NumeralValue(c) == DigitsValue(NumeralDigits(c))
FitsInt64(c) ==
    \/ Len(NumeralDigits(c)) < Len(LLONG_MAX_DIGITS)
    \/ /\ Len(NumeralDigits(c)) = Len(LLONG_MAX_DIGITS)
       /\ ~DigitsGreater(NumeralDigits(c), LLONG_MAX_DIGITS)
AnyNumeral(c) == TRUE

RangeNumerals == {<<"1">>, <<"2">>, <<"2", "0">>, BigNumeral}
RangeSuffix(A, B) ==
    <<RANGE_START_SEPARATOR>> \o A \o <<RANGE_END_SEPARATOR>> \o B \o <<RANGE_TERMINATOR>>

\* path_name is S#L, S#H#L or S#H#L#P, possibly followed by [A-B], with every
\* numeral among H, P, A, B accepted by Ok
Structured(Ok(_)) ==
    /\ Len(comps) \in 2..4
    /\ comps[1] # << >>
    /\ Len(comps) = 2 => comps[2] # << >>
    /\ Len(comps) >= 3 => (IsNumeral(comps[2]) /\ Ok(comps[2]) /\ comps[3] # << >>)
    /\ Len(comps) = 4 => (IsNumeral(comps[4]) /\ Ok(comps[4]))
    /\ \/ suffix = << >>
       \/ \E A, B \in RangeNumerals : Ok(A) /\ Ok(B) /\ suffix = RangeSuffix(A, B)

\* What the claim says such a name parses to
StructuredFields ==
    [sense |-> IF Len(comps) = 4 THEN SENSE_HAPLOTYPE ELSE SENSE_REFERENCE,
     sample |-> comps[1],
     locus |-> IF Len(comps) = 2 THEN comps[2] ELSE comps[3],
     haplotype |-> IF Len(comps) >= 3 THEN NumeralValue(comps[2]) ELSE NO_HAPLOTYPE,
     phase_block |-> IF Len(comps) = 4 THEN NumeralValue(comps[4]) ELSE NO_PHASE_BLOCK,
     subrange |-> IF suffix = << >>
                  THEN NO_SUBRANGE
                  ELSE LET ab == CHOOSE ab \in RangeNumerals \X RangeNumerals :
                                     suffix = RangeSuffix(ab[1], ab[2])
                       IN  <<NumeralValue(ab[1]), NumeralValue(ab[2])>>]

\* C6 (as claimed): for any decimal numerals H, P, A, B the structured name
\* parses, by position, to the fields it was written from.
C6_ParseByPosition ==
    (pn_status # "not_called" /\ Structured(AnyNumeral))
        => (pn_status = "returned" /\ out = StructuredFields)

\* C6 (amended): the same, for numerals whose value fits a signed 64-bit
\* integer.
C6_ParseByPositionInt64 ==
    (pn_status # "not_called" /\ Structured(FitsInt64))
        => (pn_status = "returned" /\ out = StructuredFields)

\* parse_path_name has returned on a name S#H#L#P[A-B]
C6_Witness ==
    /\ pn_status = "returned"
    /\ Structured(FitsInt64)
    /\ Len(comps) = 4
    /\ suffix # << >>
    /\ out.sense = SENSE_HAPLOTYPE

LocusComponent ==
    IF Len(comps) = 1 THEN comps[1] ELSE IF Len(comps) = 2 THEN comps[2] ELSE comps[3]

FieldOfOut(fn) ==
    CASE fn = "parse_sense" -> out.sense
      [] fn = "parse_sample_name" -> out.sample
      [] fn = "parse_locus_name" -> out.locus
      [] fn = "parse_haplotype" -> out.haplotype
      [] fn = "parse_phase_block" -> out.phase_block
      [] fn = "parse_subrange" -> out.subrange

C10_SingleAgreesWithAll ==
    (pn_status # "not_called" /\ single.fn # "none") =>
        /\ single.raised <=> pn_status = "raised"
        /\ (~single.raised /\ pn_status = "returned") => single.val = FieldOfOut(single.fn)

\* C8: as long as the iteratee has not signalled stop, the handles it was
\* invoked on are exactly the enumerated paths whose parsed sense, sample and
\* locus lie in the given sets, once each and in the order of the
\* enumeration; a call that returns then has gone through every path.
Selected(h) ==
    /\ call.senses.given => parse_sense(paths[h]).val \in call.senses.set
    /\ call.samples.given => parse_sample_name(paths[h]).val \in call.samples.set
    /\ call.loci.given => parse_locus_name(paths[h]).val \in call.loci.set

NeverStopped == \A k \in DOMAIN verdicts : verdicts[k]

C8_PathFilter ==
    (call.fn = "for_each_path_matching_impl" /\ NeverStopped) =>
        /\ visited = SelectSeq([h \in 1..(idx - 1) |-> h], Selected)
        /\ pc = "returned" => idx = Len(paths) + 1

\* A call with all three sets given has returned after visiting two paths
\* and leaving others out
C8_Witness ==
    /\ call.fn = "for_each_path_matching_impl"
    /\ pc = "returned"
    /\ NeverStopped
    /\ call.senses.given /\ call.samples.given /\ call.loci.given
    /\ Len(visited) = 2
    /\ Len(paths) > 2

\* C9: the iteratee is not invoked again once it has returned false, and
\* the call then returns false; a call whose iteratee never returned false
\* returns true, after the whole enumeration; an element that does not pass
\* the filter never ends the call.
C9_EarlyStop ==
    /\ \A k \in 1..(Len(verdicts) - 1) : verdicts[k]
    /\ pc = "running" => NeverStopped
    /\ pc = "returned" => (ret <=> NeverStopped)
    /\ (pc = "returned" /\ ret) => idx = Len(Enumerated) + 1
    /\ (pc = "returned" /\ ~ret) =>
           (visited # << >> /\ visited[Len(visited)] = Enumerated[idx])

\* for_each_step_of_sense_impl has returned false at a step of a matching
\* path, after skipping a step of another path and with a step left over
C9_Witness ==
    /\ call.fn = "for_each_step_of_sense_impl"
    /\ pc = "returned"
    /\ ~ret
    /\ Len(visited) < idx
    /\ idx < Len(call.steps)

\* C11: a name create_path_name returns is, in this order, the sample and a
\* '#' if there is a sample, the locus, a '#' and the haplotype in decimal
\* if there is a haplotype, a '#' and the phase block in decimal if there is
\* a phase block and, if there is a subrange, '[', the start, '-' and the
\* end unless the end is NO_END_POSITION, and ']'.
C11_Pieces ==
    <<IF args.sample # NO_SAMPLE_NAME THEN args.sample \o <<"#">> ELSE << >>,
      args.locus,
      IF args.haplotype # NO_HAPLOTYPE THEN <<"#">> \o ToChars(args.haplotype) ELSE << >>,
      IF args.phase_block # NO_PHASE_BLOCK THEN <<"#">> \o ToChars(args.phase_block) ELSE << >>,
      IF args.subrange = NO_SUBRANGE THEN << >> ELSE <<"[">> \o ToChars(args.subrange[1]),
      IF args.subrange = NO_SUBRANGE \/ args.subrange[2] = NO_END_POSITION
      THEN << >> ELSE <<"-">> \o ToChars(args.subrange[2]),
      IF args.subrange = NO_SUBRANGE THEN << >> ELSE <<"]">> >>

OfTargetSense(k) == parse_sense(paths[call.steps[k]]).val = call.sense

C12_StepFilter ==
    (call.fn = "for_each_step_of_sense_impl" /\ NeverStopped) =>
        /\ visited = SelectSeq([k \in 1..(idx - 1) |-> k], OfTargetSense)
        /\ pc = "returned" => idx = Len(call.steps) + 1

\* A call over three steps has returned after visiting the first and the
\* last and leaving out the one between them
C12_Witness ==
    /\ call.fn = "for_each_step_of_sense_impl"
    /\ pc = "returned"
    /\ NeverStopped
    /\ Len(call.steps) = 3
    /\ visited = <<1, 3>>

\* C13 (as claimed): when parse_path_name raises, the caller's six output
\* arguments still hold what they held before the call; when it returns,
\* all six have been assigned.
C13_NoPartialResult ==
    /\ pn_status = "raised" => out = Unassigned
    /\ pn_status = "returned" =>
           /\ out.sense # Unassigned.sense
           /\ out.sample # Unassigned.sample
           /\ out.locus # Unassigned.locus
           /\ out.haplotype # Unassigned.haplotype
           /\ out.phase_block # Unassigned.phase_block
           /\ out.subrange # Unassigned.subrange

\* C14: no call of for_each_path_matching_impl or for_each_step_of_sense_impl
\* ends with an exception from an accessor, whatever the names of the paths,
\* a name with a haplotype that is no number included.
C14_IterationNeverRaises == pc # "raised"

\* for_each_path_matching_impl, with all three sets given, has returned
\* after invoking the iteratee on a path on whose name parse_haplotype raises
C14_Witness ==
    /\ call.fn = "for_each_path_matching_impl"
    /\ pc = "returned"
    /\ call.senses.given /\ call.samples.given /\ call.loci.given
    /\ \E k \in DOMAIN visited : parse_haplotype(paths[visited[k]]).raised

====
